---- MODULE Spec2Model ----
(***************************************************************************)
(* Crossword CSP solver (crossword/generate.py, class CrosswordCreator).   *)
(* solve() = enforce_node_consistency(); ac3(); backtrack(dict()).         *)
(* Words are tuples of letters; word positions in the source are 0-based,  *)
(* so character i of word w is w[i + 1] here.                              *)
(***************************************************************************)
EXTENDS Integers, Sequences, FiniteSets, TLC

VARIABLES
    puzzle,         \* self.crossword: which crossword structure is solved
    words,          \* self.crossword.words: the vocabulary
    domains,        \* self.domains: variable -> set of words
    nodeDone,       \* enforce_node_consistency: variables already visited
    arcs,           \* ac3: the work list `arcs`
    arcs0,          \* ac3: the set of arcs the work list started with
    ac3result,      \* ac3: "none" while running, then "True" / "False"
    discipline,     \* how an arc is taken from the work list
    caller,         \* who called ac3: "solve" or "ac3" (called on its own)
    assignment,     \* backtrack: the shared `assignment` dict
    stack,          \* backtrack: the active calls, outermost first
    searchInvoked,  \* whether backtrack() has been called
    returned,       \* solve(): "pending", "None", "assignment" or "crash"
    pc              \* position in solve()

vars == << puzzle, words, domains, nodeDone, arcs, arcs0, ac3result,
           discipline, caller, assignment, stack, searchInvoked, returned, pc >>

-----------------------------------------------------------------------------
(* Bounds and input universe *)

MaxVocab == 4

Cat == << "c", "a", "t" >>
Dog == << "d", "o", "g" >>
Bat == << "b", "a", "t" >>
Tag == << "t", "a", "g" >>
Gab == << "g", "a", "b" >>
Gat == << "g", "a", "t" >>
Gag == << "g", "a", "g" >>
Be  == << "b", "e" >>
Go  == << "g", "o" >>

Universe == { Cat, Dog, Bat, Tag, Gab, Gat, Gag, Be, Go }

Vocabularies == { V \in SUBSET Universe : Cardinality(V) <= MaxVocab }

-----------------------------------------------------------------------------
(* The Puzzle Model (crossword.py: Crossword, Variable).                   *)
(*   "cross": 1 = across (1,0) length 3, 2 = down (0,1) length 3           *)
(*   "comb" : 1 = across (0,0) length 3, 2 = down (0,0) length 2,          *)
(*            3 = down (0,2) length 3                                      *)
(*   "apart": 1 = across (0,0) length 3, 2 = across (2,0) length 2         *)

Puzzles == { "cross", "comb", "apart" }

Vars(p) == IF p = "comb" THEN 1..3 ELSE 1..2

VarLength(p, v) ==
    CASE p = "cross" -> 3
      [] p = "comb"  -> IF v = 2 THEN 2 ELSE 3
      [] p = "apart" -> IF v = 1 THEN 3 ELSE 2

None == << >>

\* crossword.overlaps[x, y]: the index pair (i, j), or None
Overlaps(p, x, y) ==
    CASE p = "cross" /\ x = 1 /\ y = 2 -> << 1, 1 >>
      [] p = "cross" /\ x = 2 /\ y = 1 -> << 1, 1 >>
      [] p = "comb"  /\ x = 1 /\ y = 2 -> << 0, 0 >>
      [] p = "comb"  /\ x = 2 /\ y = 1 -> << 0, 0 >>
      [] p = "comb"  /\ x = 1 /\ y = 3 -> << 2, 0 >>
      [] p = "comb"  /\ x = 3 /\ y = 1 -> << 0, 2 >>
      [] OTHER -> None

\* crossword.neighbors(var)
Neighbors(p, v) == { u \in Vars(p) \ {v} : Overlaps(p, u, v) # None }

-----------------------------------------------------------------------------
(* Helpers for Python containers *)

\* every order in which a set can be iterated
Perms(S) ==
    { s \in [1..Cardinality(S) -> S] :
        \A i, j \in 1..Cardinality(S) : i # j => s[i] # s[j] }

RemoveAt(s, k) == [ i \in 1..(Len(s) - 1) |-> IF i < k THEN s[i] ELSE s[i + 1] ]

RECURSIVE SumOver(_, _)
SumOver(S, f) ==
    IF S = {} THEN 0
    ELSE LET e == CHOOSE e \in S : TRUE IN f[e] + SumOver(S \ {e}, f)

\* assignment[var] = val
Assign(a, var, val) ==
    [ u \in (DOMAIN a) \cup {var} |-> IF u = var THEN val ELSE a[u] ]

\* mutant: the tentative entry is left in the assignment
Delete_forgot(a, var) == a

\* del assignment[var]
Delete(a, var) == [ u \in (DOMAIN a) \ {var} |-> a[u] ]

-----------------------------------------------------------------------------
(* __init__ *)

InitialDomains(p, V) == [ v \in Vars(p) |-> V ]

\* mutant: removes only the words that are too long
NodeFilter_longer(p, v, D) == D \ { word \in D : VarLength(p, v) < Len(word) }

(* enforce_node_consistency: the body of the loop for one variable *)
NodeFilter(p, v, D) == D \ { word \in D : VarLength(p, v) # Len(word) }

NodeDomains(p, V) == [ v \in Vars(p) |-> NodeFilter(p, v, V) ]

\* mutant: the two indices of the overlap are swapped
WordsToRemove_swapped(p, doms, x, y) ==
    LET overlap == Overlaps(p, x, y) IN
    IF overlap # None
    THEN { word_x \in doms[x] :
             ~ \E word_y \in doms[y] :
                 word_x[overlap[2] + 1] = word_y[overlap[1] + 1] }
    ELSE {}

(* revise(x, y) *)
WordsToRemove(p, doms, x, y) ==
    LET overlap == Overlaps(p, x, y) IN
    IF overlap # None
    THEN { word_x \in doms[x] :
             ~ \E word_y \in doms[y] :
                 word_x[overlap[1] + 1] = word_y[overlap[2] + 1] }
    ELSE {}

ReviseDomains(p, doms, x, y) ==
    [ doms EXCEPT ![x] = @ \ WordsToRemove(p, doms, x, y) ]

\* mutant: `revise = True` is set before the loop over the words to remove
revise_always(p, doms, x, y) == Overlaps(p, x, y) # None

revise(p, doms, x, y) == WordsToRemove(p, doms, x, y) # {}

(* ac3 *)
AllArcs(p) == { a \in Vars(p) \X Vars(p) : a[2] \in Neighbors(p, a[1]) }

Disciplines == { "LIFO", "FIFO", "ANY" }

\* arcs.pop() takes the last arc; other disciplines take other positions
PopIndices(d, q) ==
    CASE d = "LIFO" -> { Len(q) }
      [] d = "FIFO" -> { 1 }
      [] d = "ANY"  -> 1..Len(q)

\* mutant: nothing is put back on the work list
Requeue_nothing(p, x, y) == { << >> }

\* the arcs appended after revise(x, y) returned True, in the order in which
\* the set `neighbours` happens to be iterated
Requeue(p, x, y) == Perms({ << z, x >> : z \in Neighbors(p, x) \ {y} })

\* mutant: the arc is read but not taken off the work list (arcs[-1])
Rest_peek(q, k) == q

Rest(q, k) == RemoveAt(q, k)

AfterAc3 == IF caller = "solve" THEN "enter" ELSE "done"

-----------------------------------------------------------------------------
\* mutant: only the loop over the assigned variables, not the one over all
assignment_complete_assigned(p, a) == \A var \in DOMAIN a : a[var] # None

(* assignment_complete(assignment); assigned values are never None *)
assignment_complete(p, a) == \A var \in Vars(p) : var \in DOMAIN a

\* mutant: the check that no word is used twice is missing
consistent_reuse(p, a) ==
    \A var \in DOMAIN a :
        /\ Len(a[var]) = VarLength(p, var)
        /\ \A neighbor \in Neighbors(p, var) :
             neighbor \in DOMAIN a =>
               /\ Overlaps(p, var, neighbor) # None
               /\ a[var][Overlaps(p, var, neighbor)[1] + 1]
                    = a[neighbor][Overlaps(p, var, neighbor)[2] + 1]

\* mutant: every other assigned variable is treated as a neighbor
consistent_allpairs(p, a) ==
    /\ \A var \in DOMAIN a :
         /\ Len(a[var]) = VarLength(p, var)
         /\ \A neighbor \in (DOMAIN a) \ {var} :
                /\ Overlaps(p, var, neighbor) # None
                /\ a[var][Overlaps(p, var, neighbor)[1] + 1]
                     = a[neighbor][Overlaps(p, var, neighbor)[2] + 1]
    /\ Cardinality(DOMAIN a) = Cardinality({ a[v] : v \in DOMAIN a })

(* consistent(assignment) *)
consistent(p, a) ==
    /\ \A var \in DOMAIN a :
         /\ Len(a[var]) = VarLength(p, var)
         /\ \A neighbor \in Neighbors(p, var) :
              neighbor \in DOMAIN a =>
                /\ Overlaps(p, var, neighbor) # None
                /\ a[var][Overlaps(p, var, neighbor)[1] + 1]
                     = a[neighbor][Overlaps(p, var, neighbor)[2] + 1]
    /\ Cardinality(DOMAIN a) = Cardinality({ a[v] : v \in DOMAIN a })

(* order_domain_values(var, assignment) *)
\* dictionary_for_ordering[word_var]: matching words over unassigned neighbors
MatchCount(p, doms, var, a, word_var) ==
    LET open == { n \in Neighbors(p, var) : n \notin DOMAIN a }
        perNeighbor == [ n \in open |->
            Cardinality({ word_neighbor \in doms[n] :
                word_var[Overlaps(p, var, n)[1] + 1]
                  = word_neighbor[Overlaps(p, var, n)[2] + 1] }) ]
    IN SumOver(open, perNeighbor)

\* mutant: sorted without reverse = True
order_domain_values_ascending(p, doms, var, a) ==
    { s \in Perms(doms[var]) :
        \A i \in 1..(Len(s) - 1) :
            MatchCount(p, doms, var, a, s[i])
              <= MatchCount(p, doms, var, a, s[i + 1]) }

\* sorted(..., reverse = True) is stable: words with equal counts keep the
\* order in which the domain set happens to be iterated
order_domain_values(p, doms, var, a) ==
    { s \in Perms(doms[var]) :
        \A i \in 1..(Len(s) - 1) :
            MatchCount(p, doms, var, a, s[i])
              >= MatchCount(p, doms, var, a, s[i + 1]) }

(* select_unassigned_variable(assignment) *)
Unassigned(p, a) == Vars(p) \ DOMAIN a

\* mutant: the degree is not negated in the sort key
KeyLeq_lowdegree(p, doms, x, y) ==
    \/ Cardinality(doms[x]) < Cardinality(doms[y])
    \/ /\ Cardinality(doms[x]) = Cardinality(doms[y])
       /\ Cardinality(Neighbors(p, x)) <= Cardinality(Neighbors(p, y))

\* the sort key (len(domain), -degree), compared lexicographically
KeyLeq(p, doms, x, y) ==
    \/ Cardinality(doms[x]) < Cardinality(doms[y])
    \/ /\ Cardinality(doms[x]) = Cardinality(doms[y])
       /\ Cardinality(Neighbors(p, x)) >= Cardinality(Neighbors(p, y))

\* result[0]: any variable with a least key (ties as the set is iterated)
select_unassigned_variable(p, doms, a) ==
    { x \in Unassigned(p, a) : \A y \in Unassigned(p, a) : KeyLeq(p, doms, x, y) }

\* `if result:` on a returned dict
Truthy(a) == DOMAIN a # {}

-----------------------------------------------------------------------------
(* solve(): the program *)

Init ==
    /\ puzzle \in Puzzles
    /\ words \in Vocabularies
    /\ domains = InitialDomains(puzzle, words)
    /\ nodeDone = {}
    /\ arcs = << >>
    /\ arcs0 = {}
    /\ ac3result = "none"
    /\ discipline = "LIFO"
    /\ caller = "solve"
    /\ assignment = << >>
    /\ stack = << >>
    /\ searchInvoked = FALSE
    /\ returned = "pending"
    /\ pc = "node"

\* one iteration of `for var in self.domains`
enforce_node_consistency ==
    /\ pc = "node"
    /\ \E var \in Vars(puzzle) \ nodeDone :
         /\ domains' = [ domains EXCEPT ![var] = NodeFilter(puzzle, var, @) ]
         /\ nodeDone' = nodeDone \cup {var}
    /\ UNCHANGED << puzzle, words, arcs, arcs0, ac3result, discipline, caller,
                    assignment, stack, searchInvoked, returned, pc >>

\* ac3(arcs=None): build the list of all arcs
ac3_begin ==
    /\ pc = "node"
    /\ nodeDone = Vars(puzzle)
    /\ \E q \in Perms(AllArcs(puzzle)) : arcs' = q
    /\ arcs0' = AllArcs(puzzle)
    /\ pc' = "ac3"
    /\ UNCHANGED << puzzle, words, domains, nodeDone, ac3result, discipline,
                    caller, assignment, stack, searchInvoked, returned >>

\* one iteration of `while arcs`
ac3_step ==
    /\ pc = "ac3"
    /\ arcs # << >>
    /\ \E k \in PopIndices(discipline, arcs) :
         LET x == arcs[k][1]
             y == arcs[k][2]
         IN /\ domains' = ReviseDomains(puzzle, domains, x, y)
            /\ IF revise(puzzle, domains, x, y)
               THEN IF Cardinality(domains'[x]) = 0
                    THEN /\ arcs' = Rest(arcs, k)
                         /\ ac3result' = "False"
                         /\ pc' = AfterAc3
                    ELSE /\ \E q \in Requeue(puzzle, x, y) :
                              arcs' = Rest(arcs, k) \o q
                         /\ UNCHANGED << ac3result, pc >>
               ELSE /\ arcs' = Rest(arcs, k)
                    /\ UNCHANGED << ac3result, pc >>
    /\ UNCHANGED << puzzle, words, nodeDone, arcs0, discipline, caller,
                    assignment, stack, searchInvoked, returned >>

\* the work list is empty: return True
ac3_return ==
    /\ pc = "ac3"
    /\ arcs = << >>
    /\ ac3result' = "True"
    /\ pc' = AfterAc3
    /\ UNCHANGED << puzzle, words, domains, nodeDone, arcs, arcs0, discipline,
                    caller, assignment, stack, searchInvoked, returned >>

\* backtrack(assignment) is entered (from solve, or recursively)
backtrack_enter ==
    /\ pc = "enter"
    /\ searchInvoked' = TRUE
    /\ IF assignment_complete(puzzle, assignment)
       THEN \* return assignment; every caller's `if result:` passes it up
            IF stack = << >> \/ Truthy(assignment)
            THEN /\ returned' = "assignment"
                 /\ pc' = "done"
                 /\ stack' = << >>
                 /\ UNCHANGED assignment
            ELSE /\ assignment' = Delete(assignment, stack[Len(stack)].var)
                 /\ stack' = [ stack EXCEPT ![Len(stack)].vals = Tail(@) ]
                 /\ pc' = "loop"
                 /\ UNCHANGED returned
       ELSE IF select_unassigned_variable(puzzle, domains, assignment) = {}
            THEN \* result[0] on an empty list
                 /\ returned' = "crash"
                 /\ pc' = "done"
                 /\ UNCHANGED << assignment, stack >>
            ELSE /\ \E var \in select_unassigned_variable(puzzle, domains, assignment) :
                    \E vals \in order_domain_values(puzzle, domains, var, assignment) :
                      stack' = Append(stack, [ var |-> var, vals |-> vals,
                                               entry |-> assignment ])
                 /\ pc' = "loop"
                 /\ UNCHANGED << assignment, returned >>
    /\ UNCHANGED << puzzle, words, domains, nodeDone, arcs, arcs0, ac3result,
                    discipline, caller >>

\* mutant: a placed word also narrows the variable's domain to that word
backtrack_try_narrow ==
    /\ pc = "loop"
    /\ stack # << >>
    /\ stack[Len(stack)].vals # << >>
    /\ LET var == stack[Len(stack)].var
           val == Head(stack[Len(stack)].vals)
           placed == Assign(assignment, var, val)
       IN IF consistent(puzzle, placed)
          THEN /\ assignment' = placed
               /\ domains' = [ domains EXCEPT ![var] = { val } ]
               /\ pc' = "enter"
               /\ UNCHANGED stack
          ELSE /\ assignment' = Delete(placed, var)
               /\ stack' = [ stack EXCEPT ![Len(stack)].vals = Tail(@) ]
               /\ UNCHANGED << pc, domains >>
    /\ UNCHANGED << puzzle, words, nodeDone, arcs, arcs0, ac3result,
                    discipline, caller, searchInvoked, returned >>

\* one iteration of `for val in ...`: place val, test consistent
backtrack_try ==
    /\ pc = "loop"
    /\ stack # << >>
    /\ stack[Len(stack)].vals # << >>
    /\ LET var == stack[Len(stack)].var
           val == Head(stack[Len(stack)].vals)
           placed == Assign(assignment, var, val)
       IN IF consistent(puzzle, placed)
          THEN /\ assignment' = placed
               /\ pc' = "enter"
               /\ UNCHANGED stack
          ELSE /\ assignment' = Delete(placed, var)
               /\ stack' = [ stack EXCEPT ![Len(stack)].vals = Tail(@) ]
               /\ UNCHANGED pc
    /\ UNCHANGED << puzzle, words, domains, nodeDone, arcs, arcs0, ac3result,
                    discipline, caller, searchInvoked, returned >>

\* the loop of the innermost call is exhausted: return None to its caller,
\* which deletes its own tentative entry and goes on with its loop
backtrack_fail ==
    /\ pc = "loop"
    /\ stack # << >>
    /\ stack[Len(stack)].vals = << >>
    /\ IF Len(stack) = 1
       THEN /\ stack' = << >>
            /\ returned' = "None"
            /\ pc' = "done"
            /\ UNCHANGED assignment
       ELSE LET up == SubSeq(stack, 1, Len(stack) - 1) IN
            /\ assignment' = Delete(assignment, up[Len(up)].var)
            /\ stack' = [ up EXCEPT ![Len(up)].vals = Tail(@) ]
            /\ UNCHANGED << returned, pc >>
    /\ UNCHANGED << puzzle, words, domains, nodeDone, arcs, arcs0, ac3result,
                    discipline, caller, searchInvoked >>

Next ==
    \/ enforce_node_consistency
    \/ ac3_begin
    \/ ac3_step
    \/ ac3_return
    \/ backtrack_enter
    \/ backtrack_try
    \/ backtrack_fail

Spec == Init /\ [][Next]_vars

-----------------------------------------------------------------------------
(* ac3(arcs) called on its own: any initial list of arcs of the problem,   *)
(* on node-consistent domains, under each work-list discipline             *)

ArcLists(p) == UNION { Perms(S) : S \in SUBSET AllArcs(p) }

ArcInit ==
    /\ puzzle \in Puzzles
    /\ words \in Vocabularies
    /\ domains = NodeDomains(puzzle, words)
    /\ nodeDone = Vars(puzzle)
    /\ arcs \in ArcLists(puzzle)
    /\ arcs0 = { arcs[i] : i \in 1..Len(arcs) }
    /\ ac3result = "none"
    /\ discipline \in Disciplines
    /\ caller = "ac3"
    /\ assignment = << >>
    /\ stack = << >>
    /\ searchInvoked = FALSE
    /\ returned = "pending"
    /\ pc = "ac3"

ArcNext ==
    \/ ac3_step
    \/ ac3_return

ArcSpec == ArcInit /\ [][ArcNext]_vars

\* the loop always goes on to its next iteration or returns
FairArcSpec == ArcSpec /\ WF_vars(ArcNext)

\* ac3 run to its end as the code runs it (arcs.pop() takes the last arc),
\* with one fixed iteration order of `neighbours`
RECURSIVE ac3_run(_, _, _)
ac3_run(p, doms, q) ==
    IF q = << >>
    THEN [ ok |-> "True", doms |-> doms ]
    ELSE LET x == q[Len(q)][1]
             y == q[Len(q)][2]
             nd == ReviseDomains(p, doms, x, y)
         IN IF revise(p, doms, x, y)
            THEN IF Cardinality(nd[x]) = 0
                 THEN [ ok |-> "False", doms |-> nd ]
                 ELSE ac3_run(p, nd, Rest(q, Len(q))
                                       \o (CHOOSE r \in Requeue(p, x, y) : TRUE))
            ELSE ac3_run(p, nd, Rest(q, Len(q)))

-----------------------------------------------------------------------------
(* revise(x, y) called once, on any pair of distinct variables and any     *)
(* domains within the node-consistent ones                                 *)

SubDomains(p, V) ==
    { d \in [Vars(p) -> SUBSET V] :
        \A v \in Vars(p) : d[v] \subseteq NodeFilter(p, v, V) }

ReviseInit ==
    /\ puzzle \in Puzzles
    /\ words \in Vocabularies
    /\ domains \in SubDomains(puzzle, words)
    /\ nodeDone = Vars(puzzle)
    /\ arcs \in { << a >> : a \in { b \in Vars(puzzle) \X Vars(puzzle) : b[1] # b[2] } }
    /\ arcs0 = { arcs[1] }
    /\ ac3result = "none"
    /\ discipline = "LIFO"
    /\ caller = "revise"
    /\ assignment = << >>
    /\ stack = << >>
    /\ searchInvoked = FALSE
    /\ returned = "pending"
    /\ pc = "revise"

\* revise(x, y) for the arc (x, y) held in arcs; returned is its result
revise_call ==
    /\ pc = "revise"
    /\ domains' = ReviseDomains(puzzle, domains, arcs[1][1], arcs[1][2])
    /\ returned' = IF revise(puzzle, domains, arcs[1][1], arcs[1][2])
                   THEN "True" ELSE "False"
    /\ pc' = "done"
    /\ UNCHANGED << puzzle, words, nodeDone, arcs, arcs0, ac3result, discipline,
                    caller, assignment, stack, searchInvoked >>

ReviseSpec == ReviseInit /\ [][revise_call]_vars

-----------------------------------------------------------------------------
(* Properties *)

\* a complete assignment that meets every length, overlap and distinctness
\* constraint of puzzle p
IsSolution(p, a) ==
    /\ DOMAIN a = Vars(p)
    /\ \A v \in Vars(p) : Len(a[v]) = VarLength(p, v)
    /\ \A x \in Vars(p) : \A y \in Vars(p) \ {x} :
         /\ Overlaps(p, x, y) # None =>
              a[x][Overlaps(p, x, y)[1] + 1] = a[y][Overlaps(p, x, y)[2] + 1]
         /\ a[x] # a[y]

SolutionExists(p, V) == \E a \in [Vars(p) -> V] : IsSolution(p, a)

EmptyDomain == \E v \in Vars(puzzle) : domains[v] = {}

ArcConsistent(p, doms) ==
    \A x \in Vars(p) : \A w \in doms[x] : \A y \in Neighbors(p, x) :
        \E v \in doms[y] :
            w[Overlaps(p, x, y)[1] + 1] = v[Overlaps(p, x, y)[2] + 1]

\* C1: whenever solve() returns an assignment, it has an entry for every
\* variable, every word has its variable's length, overlapping variables
\* agree at the overlap indices and no word is used twice.
C1_SearchSound == returned = "assignment" => IsSolution(puzzle, assignment)

C1_Witness ==
    /\ returned = "assignment"
    /\ puzzle = "comb"
    /\ words = { Bat, Tag, Be }

\* C2: if some complete assignment of vocabulary words meets all the
\* constraints, solve() returns an assignment, never None.
C2_SearchComplete ==
    (pc = "done" /\ SolutionExists(puzzle, words)) => returned = "assignment"

C2_Witness ==
    /\ pc = "done"
    /\ returned = "assignment"
    /\ puzzle = "comb"
    /\ domains # NodeDomains(puzzle, words)

\* C3: if ac3 returns False, solve() returns "no solution" at once and
\* backtrack is never invoked in that run.
C3_NoSearchAfterFailure == ac3result = "False" => ~ searchInvoked

\* C4: whenever a domain is empty after node consistency or becomes empty
\* during propagation (domains never grow, so it is still empty at the end),
\* solve() returns None: not an assignment, not a crash; with or without
\* neighbors of the variable whose domain is empty.
C4_EmptyDomainGivesNone == (pc = "done" /\ EmptyDomain) => returned = "None"

C4_Witness ==
    /\ pc = "done"
    /\ puzzle = "apart"
    /\ domains[2] = {}
    /\ domains[1] # {}
    /\ ac3result = "True"
    /\ returned = "None"

\* C5: whenever ac3 called with the full arc set returns True, every word
\* left in a domain has a compatible word in every neighbor's domain, and
\* revise on any arc would remove nothing.
C5_ArcConsistentOnSuccess ==
    (ac3result = "True" /\ arcs0 = AllArcs(puzzle)) =>
        /\ ArcConsistent(puzzle, domains)
        /\ \A a \in AllArcs(puzzle) : ~ revise(puzzle, domains, a[1], a[2])

C5_Witness ==
    /\ ac3result = "True"
    /\ puzzle = "comb"
    /\ domains # NodeDomains(puzzle, words)
    /\ ~ EmptyDomain

\* C6: ac3 returns True only if no domain is empty, and returns False if a
\* domain is empty when it finishes (one emptied by node consistency too).
C6_ResultTellsEmptyDomain ==
    ac3result # "none" => (ac3result = "True" <=> ~ EmptyDomain)

\* what ac3 gives on the starting domains when it is run as the code runs it
Reference == ac3_run(puzzle, NodeDomains(puzzle, words),
                     CHOOSE q \in Perms(arcs0) : TRUE)

SameAsReference ==
    /\ ac3result = Reference.ok
    /\ ac3result = "True" => domains = Reference.doms

\* C7 (as claimed): for the same starting domains and the same initial set
\* of arcs, every order of taking arcs from the work list gives the same
\* success/failure outcome and, on success, the same final domains.
C7_AnyArcsAnyOrder == ac3result # "none" => SameAsReference

\* C7 (amended): the same, when the initial arcs are all the arcs of the
\* problem, as in solve().
C7_AllArcsAnyOrder ==
    (ac3result # "none" /\ arcs0 = AllArcs(puzzle)) => SameAsReference

C7_Witness ==
    /\ ac3result = "True"
    /\ arcs0 = AllArcs(puzzle)
    /\ puzzle = "comb"
    /\ discipline = "FIFO"
    /\ domains # NodeDomains(puzzle, words)

\* C8: ac3 terminates for every initial arc list: it returns False, or it
\* returns True with the work list empty, so that every arc that was put on
\* the list has been taken and revised; and the work list fails to get
\* shorter in a step only when that step strictly shrank a domain.
C8_Ac3Terminates ==
    /\ <>( /\ ac3result # "none"
           /\ ac3result = "True" => arcs = << >> )
    /\ [][ (arcs # << >> /\ Len(arcs') >= Len(arcs)) =>
             \E v \in Vars(puzzle) :
                 domains'[v] \subseteq domains[v] /\ domains'[v] # domains[v] ]_vars

C8_Witness ==
    /\ ac3result = "True"
    /\ arcs = << >>
    /\ arcs0 # {}
    /\ arcs0 # AllArcs(puzzle)
    /\ domains # NodeDomains(puzzle, words)

\* C9: after enforce_node_consistency has visited a variable, its domain is
\* exactly the vocabulary words of the variable's length; an empty domain is
\* a legal outcome.
C9_NodeConsistent ==
    pc = "node" =>
        \A v \in Vars(puzzle) :
            domains[v] = IF v \in nodeDone
                         THEN { w \in words : Len(w) = VarLength(puzzle, v) }
                         ELSE words

C9_Witness ==
    /\ pc = "node"
    /\ nodeDone = Vars(puzzle)
    /\ puzzle = "comb"
    /\ domains[1] # {}
    /\ domains[1] # words
    /\ domains[2] # {}
    /\ domains[2] # words

\* C10: two 3-letter variables overlapping at (1, 1): with {cat, dog, bat}
\* solve() returns two distinct words with equal letters at index 1; with
\* {cat, dog} it returns None although arc consistency removed nothing.
C10_Example ==
    (pc = "done" /\ puzzle = "cross") =>
        /\ words = { Cat, Dog, Bat } =>
             /\ returned = "assignment"
             /\ DOMAIN assignment = { 1, 2 }
             /\ assignment[1] # assignment[2]
             /\ assignment[1][2] = assignment[2][2]
        /\ words = { Cat, Dog } =>
             /\ returned = "None"
             /\ ac3result = "True"
             /\ domains = InitialDomains(puzzle, words)

C10_Witness ==
    /\ pc = "done"
    /\ puzzle = "cross"
    /\ words = { Cat, Dog }
    /\ returned = "None"

\* the number of words word w of var rules out: over the unassigned
\* neighbors n of var, the words of n's domain that differ from w at the
\* overlap
RuledOut(p, doms, var, a, w) ==
    LET open == { n \in Neighbors(p, var) : n \notin DOMAIN a }
        perNeighbor == [ n \in open |->
            Cardinality({ u \in doms[n] :
                w[Overlaps(p, var, n)[1] + 1] # u[Overlaps(p, var, n)[2] + 1] }) ]
    IN SumOver(open, perNeighbor)

\* C11: the list order_domain_values gives a call of backtrack holds every
\* word of the variable's domain exactly once, in ascending order of the
\* number of words it rules out in the domains of the unassigned neighbors
\* (assigned neighbors count for nothing).
C11_LeastConstrainingFirst ==
    [][ Len(stack') > Len(stack) =>
          LET f == stack'[Len(stack')] IN
          /\ Len(f.vals) = Cardinality(domains[f.var])
          /\ { f.vals[i] : i \in 1..Len(f.vals) } = domains[f.var]
          /\ \A i \in 1..(Len(f.vals) - 1) :
                RuledOut(puzzle, domains, f.var, f.entry, f.vals[i])
                  <= RuledOut(puzzle, domains, f.var, f.entry, f.vals[i + 1]) ]_vars

\* a list just made for a variable with one neighbor assigned and one not,
\* whose words rule out different numbers of words
C11_Witness ==
    /\ pc = "loop"
    /\ stack # << >>
    /\ LET f == stack[Len(stack)] IN
       /\ Len(f.vals) = Cardinality(domains[f.var])
       /\ Len(f.vals) >= 2
       /\ assignment = f.entry
       /\ \E n \in Neighbors(puzzle, f.var) : n \in DOMAIN f.entry
       /\ \E n \in Neighbors(puzzle, f.var) : n \notin DOMAIN f.entry
       /\ RuledOut(puzzle, domains, f.var, f.entry, f.vals[1])
            < RuledOut(puzzle, domains, f.var, f.entry, f.vals[Len(f.vals)])

\* v is a minimum-remaining-values choice among the variables outside S
MrvChoice(p, doms, S, v) ==
    /\ v \in Vars(p) \ S
    /\ \A u \in Vars(p) \ S :
         /\ Cardinality(doms[u]) >= Cardinality(doms[v])
         /\ Cardinality(doms[u]) = Cardinality(doms[v]) =>
              Cardinality(Neighbors(p, u)) <= Cardinality(Neighbors(p, v))

\* C12: for every partial assignment that leaves a variable unassigned,
\* select_unassigned_variable gives an unassigned variable such that no
\* unassigned variable has a smaller domain and, among those with a domain
\* of the same size, none has more neighbors. Checked for every set of
\* assigned variables on the domains the search starts with (they stay as
\* they are during the search), and for the variable of every call of
\* backtrack.
C12_MinimumRemainingValues ==
    /\ (pc = "enter" /\ stack = << >>) =>
         \A S \in (SUBSET Vars(puzzle)) \ { Vars(puzzle) } :
            LET a == [ v \in S |-> None ] IN
            /\ select_unassigned_variable(puzzle, domains, a) # {}
            /\ \A x \in select_unassigned_variable(puzzle, domains, a) :
                 MrvChoice(puzzle, domains, S, x)
    /\ \A i \in 1..Len(stack) :
         MrvChoice(puzzle, domains, DOMAIN stack[i].entry, stack[i].var)

\* a call of backtrack whose variable was picked for its degree: another
\* unassigned variable has a domain of the same size and fewer neighbors
C12_Witness ==
    /\ pc = "loop"
    /\ Len(stack) = 1
    /\ puzzle = "comb"
    /\ stack[1].var = 1
    /\ Cardinality(domains[1]) = Cardinality(domains[3])
    /\ Cardinality(domains[1]) <= Cardinality(domains[2])
    /\ Cardinality(domains[1]) >= 1

\* C13: revise(X, Y) with an overlap (i, j) removes from X's domain exactly
\* the words with no word of Y's domain equal at the overlap and returns
\* True iff it removed a word; without an overlap it removes nothing and
\* returns False; no other domain changes.
C13_ReviseExact ==
    [][ pc = "revise" =>
          LET x == arcs[1][1]
              y == arcs[1][2]
              o == Overlaps(puzzle, x, y)
          IN /\ o # None =>
                  /\ domains'[x] = { w \in domains[x] :
                                       \E v \in domains[y] : w[o[1] + 1] = v[o[2] + 1] }
                  /\ returned' = "True" <=> domains'[x] # domains[x]
             /\ o = None => (domains'[x] = domains[x] /\ returned' = "False")
             /\ returned' \in { "True", "False" }
             /\ \A v \in Vars(puzzle) \ {x} : domains'[v] = domains[v] ]_vars

\* revise has removed some, not all, of the words of X
C13_Witness ==
    /\ caller = "revise"
    /\ pc = "done"
    /\ returned = "True"
    /\ Overlaps(puzzle, arcs[1][1], arcs[1][2]) = << 2, 0 >>
    /\ domains[arcs[1][1]] # {}
    /\ domains[arcs[1][2]] # {}

\* C14: backtrack returns a complete assignment or None, never a partial
\* assignment; and whenever a call, recursive or top-level, is between two
\* candidates or returns None, the assignment holds exactly the entries it
\* held when that call was entered.
C14_FailureRestoresAssignment ==
    /\ pc = "done" /\ caller = "solve" => returned \in { "assignment", "None" }
    /\ returned = "assignment" => DOMAIN assignment = Vars(puzzle)
    /\ returned = "None" => assignment = << >>
    /\ (pc = "loop" /\ stack # << >>) => assignment = stack[Len(stack)].entry

\* a recursive call that has tried every word of a non-empty domain and is
\* about to return None
C14_Witness ==
    /\ pc = "loop"
    /\ Len(stack) = 2
    /\ stack[2].vals = << >>
    /\ Cardinality(domains[stack[2].var]) >= 2
    /\ assignment = stack[2].entry
    /\ DOMAIN assignment # {}

\* C15: from the first entry of backtrack until solve() returns, no step
\* changes a domain; only the assignment (and the calls in progress) change.
C15_DomainsStaticInSearch ==
    [][ (pc = "enter" \/ pc = "loop") =>
          (domains' = domains /\ words' = words) ]_vars

\* in the middle of the search: a second variable has just been placed
C15_Witness ==
    /\ pc = "enter"
    /\ Len(stack) = 2
    /\ Cardinality(DOMAIN assignment) = 2
    /\ Cardinality(domains[stack[2].var]) >= 2

\* a complete assignment that meets the length and overlap constraints
FitsGrid(p, a) ==
    /\ \A v \in Vars(p) : Len(a[v]) = VarLength(p, v)
    /\ \A x \in Vars(p) : \A y \in Neighbors(p, x) :
         a[x][Overlaps(p, x, y)[1] + 1] = a[y][Overlaps(p, x, y)[2] + 1]

\* C16: at every point of enforce_node_consistency and ac3, up to the first
\* entry of backtrack (also when ac3 stopped early with False), each domain
\* is a subset of the vocabulary and still holds, for every complete
\* assignment of vocabulary words that meets the length and overlap
\* constraints, the word that assignment gives the variable.
C16_PruningKeepsSolutions ==
    ~ searchInvoked =>
        /\ \A v \in Vars(puzzle) : domains[v] \subseteq words
        /\ \A a \in [Vars(puzzle) -> words] :
             FitsGrid(puzzle, a) => \A v \in Vars(puzzle) : a[v] \in domains[v]

\* ac3 has pruned a domain and is still running, and the grid can be filled
C16_Witness ==
    /\ pc = "ac3"
    /\ caller = "solve"
    /\ puzzle = "comb"
    /\ arcs # << >>
    /\ domains # NodeDomains(puzzle, words)
    /\ \E a \in [Vars(puzzle) -> words] : FitsGrid(puzzle, a)

====
